---- MODULE Spec2Model ----
(***************************************************************************)
(* Model of the job orchestration engine of video-slicer (src/app.py):     *)
(* the JOBS registry, the start() handler, the run_job worker thread, the  *)
(* external ffmpeg process with its two bounded pipes, and the readers of  *)
(* a job record (job page, progress stream, downloads).                    *)
(*                                                                         *)
(* The worker and the readers run on different threads and take no lock,   *)
(* so every write of a field of the job record and every read of one is a  *)
(* step of its own.                                                        *)
(*                                                                         *)
(* pct is a float in the code.  The model keeps it as an integer count of  *)
(* 1/Dur units, where Dur is the probed duration in seconds: a progress    *)
(* line out_time_ms=k*10^6 gives min(1.0, k/Dur), held here as Min(Dur,k), *)
(* and 1.0 is held as Dur (the definition One).                            *)
(***************************************************************************)
EXTENDS Integers, Sequences, FiniteSets, TLC

\* ------------------------------------------------------------------ bounds
JobIds == {"j1", "j2"}    \* identifiers uuid4() may hand out
SoloIds == {"j1"}         \* the one job submitted where a single job is followed
RequestIds == JobIds \cup {"unknown"}   \* identifiers a request may name
Dur == 2                  \* duration ffprobe reports, in seconds
MinOutTime == 0 - 1       \* least out_time_ms value of a progress line (s)
MaxOutTime == 3           \* greatest out_time_ms value of a progress line (s)
StdoutCap == 1            \* lines the stdout pipe holds
StderrCap == 1            \* chunks the stderr pipe holds
MaxWrites == 2            \* writes the external process attempts
MaxFiles == 2             \* segment files the external process produces

One == Dur                \* the float 1.0 in 1/Dur units
OutTimes == MinOutTime..MaxOutTime

Min(a, b) == IF a <= b THEN a ELSE b

\* ------------------------------------------------------- progress lines
\* A line of the process's standard output, as run_job splits it.
NoEqLine == [hasEq |-> FALSE, k |-> "", v |-> "", n |-> 0]
OutTimeLine(n) == [hasEq |-> TRUE, k |-> "out_time_ms", v |-> "int", n |-> n]
BadOutTimeLine == [hasEq |-> TRUE, k |-> "out_time_ms", v |-> "N/A", n |-> 0]
EndLine == [hasEq |-> TRUE, k |-> "progress", v |-> "end", n |-> 0]
ContinueLine == [hasEq |-> TRUE, k |-> "progress", v |-> "continue", n |-> 0]

Lines == {NoEqLine, BadOutTimeLine, EndLine, ContinueLine}
           \cup {OutTimeLine(n) : n \in OutTimes}

\* int(v): succeeds on a decimal integer, raises ValueError otherwise.
IsInt(line) == line.v = "int"

\* min(1.0, out_s / max(dur, 1e-6)) in 1/Dur units.
PctOf(n) == Min(One, n)

\* ------------------------------------------------------------- the state
VARIABLES
  JOBS,        \* job_id -> record, the registry
  pc,          \* job_id -> position of start() / of the worker thread
  proc,        \* job_id -> the external process: state, next write, budget, exit code
  stdoutPipe,  \* job_id -> lines written and not yet read
  stderrPipe,  \* job_id -> chunks written and never read before exit
  outdir,      \* files in the output directory
  waited,      \* job_id -> proc.wait() has returned
  startPc,     \* job_id -> how many steps of StartSteps start() has taken
  genPc,       \* job_id -> position of gen(), the generator of progress_stream
  payload,     \* job_id -> the payload gen() is building, or has last yielded
  resp,        \* the last response a request handler gave
  probe,       \* one call of the segment-time estimators: its inputs and results
  listed       \* one call of the parts listing: its inputs and result

vars == <<JOBS, pc, proc, stdoutPipe, stderrPipe, outdir, waited, startPc,
          genPc, payload, resp, probe, listed>>

\* The state of the calls checked on their own, which no request touches.
calls == <<probe, listed>>

Terminal == {"done", "error"}

NewJob == [status |-> "queued", pct |-> 0, msg |-> "", finished |-> "None",
           out_pattern |-> "", parts |-> <<>>]

NoProc == [state |-> "none", op |-> "none", line |-> NoEqLine, left |-> 0, ret |-> 0]

NoPayload == [status |-> "", pct |-> 0, msg |-> "", files |-> <<>>]

\* A response: the handler, the job id of the request, the HTTP status code,
\* and for start() the chunk_mb field and the uploaded file of the form.
Response(op, id, code, chunk, file) ==
  [op |-> op, id |-> id, code |-> code, chunk |-> chunk, file |-> file]

NoResponse == Response("none", "", 0, "", "")

NoCall == [in |-> <<>>, out |-> [done |-> FALSE]]

Init ==
  /\ JOBS = [j \in {} |-> NewJob]
  /\ pc = [j \in JobIds |-> "unborn"]
  /\ proc = [j \in JobIds |-> NoProc]
  /\ stdoutPipe = [j \in JobIds |-> <<>>]
  /\ stderrPipe = [j \in JobIds |-> 0]
  /\ outdir = {}
  /\ waited = [j \in JobIds |-> FALSE]
  /\ startPc = [j \in JobIds |-> 0]
  /\ genPc = [j \in JobIds |-> "none"]
  /\ payload = [j \in JobIds |-> NoPayload]
  /\ resp = NoResponse
  /\ probe = NoCall
  /\ listed = NoCall

\* j["<f>"] = v
SetField(j, f, v) == JOBS' = [JOBS EXCEPT ![j][f] = v]

\* ---------------------------------------------------------------- start()
\* The two effects of start() on shared state, in the order it performs them.
StartStepsSwapped == <<"thread", "insert">>
StartSteps == <<"insert", "thread">>

StartNext(j) == IF startPc[j] < Len(StartSteps) THEN StartSteps[startPc[j] + 1] ELSE "return"

\* The chunk_mb field of the form, as text: absent, or what was typed.
ChunkForms == {"missing", "1.5", "-1", "0", "1"}

\* request.form.get("chunk_mb", "0")
ChunkText(c) == IF c = "missing" THEN "0" ELSE c

\* int(text): the texts that are decimal integers, and their values
IntTexts == {"-1", "0", "1"}
IntOf(t) == IF t = "-1" THEN 0 - 1 ELSE IF t = "0" THEN 0 ELSE 1

\* lines 130-134: chunk_mb = int(...); assert chunk_mb > 0; else abort(400)
ChunkAcceptedUnasserted(c) == ChunkText(c) \in IntTexts
ChunkAccepted(c) == ChunkText(c) \in IntTexts /\ IntOf(ChunkText(c)) > 0

\* request.files.get("file"): no file part, or an upload with its filename
FileForms == {"none", "video.mp4"}

\* lines 138-144: if file and file.filename: ... else abort(400)
FileAccepted(f) == f # "none"

StartAccepts(c, f) == ChunkAccepted(c) /\ FileAccepted(f)

\* request.form.get("pattern", "").strip() or None: no pattern, or an explicit
\* one; every explicit pattern names the same files, ExplicitPrefix + number.
PatternForms == {"", "explicit"}
ExplicitPrefix == "p"

\* lines 129-144: a submission that fails validation is answered 400
StartReject ==
  /\ \E c \in ChunkForms, f \in FileForms :
       /\ ~StartAccepts(c, f)
       /\ resp' = Response("start", "", 400, c, f)
  /\ UNCHANGED <<JOBS, pc, proc, stdoutPipe, stderrPipe, outdir, waited, startPc,
                 genPc, payload, calls>>

\* job_id = uuid.uuid4().hex; JOBS[job_id] = {...}
StartInsert(j) ==
  /\ StartNext(j) = "insert"
  /\ j \notin DOMAIN JOBS
  /\ \E c \in ChunkForms, f \in FileForms : StartAccepts(c, f)
  /\ \E pat \in PatternForms :
       JOBS' = [k \in DOMAIN JOBS \cup {j} |->
                  IF k = j THEN [NewJob EXCEPT !.out_pattern = pat] ELSE JOBS[k]]
  /\ startPc' = [startPc EXCEPT ![j] = @ + 1]
  /\ UNCHANGED <<pc, proc, stdoutPipe, stderrPipe, outdir, waited, genPc, payload, resp, calls>>

\* t = threading.Thread(target=run_job, ...); t.start()
StartThread(j) ==
  /\ StartNext(j) = "thread"
  /\ pc[j] = "unborn"
  /\ pc' = [pc EXCEPT ![j] = "l55"]
  /\ startPc' = [startPc EXCEPT ![j] = @ + 1]
  /\ \E c \in ChunkForms, f \in FileForms :
       /\ StartAccepts(c, f)
       /\ resp' = Response("start", j, 302, c, f)
  /\ UNCHANGED <<JOBS, proc, stdoutPipe, stderrPipe, outdir, waited, genPc, payload, calls>>

\* ------------------------------------------------------- run_job, the worker
\* pc values are the line of src/app.py the thread executes next; "dead" is a
\* thread ended by an exception nothing caught, "keyerror" one ended by a
\* JOBS[job_id] lookup that missed, "returned" one that ran to its end.
WorkerSteps(j, from, to) ==
  /\ pc[j] = from
  /\ pc' = [pc EXCEPT ![j] = to]

\* A write of one field through j = JOBS[job_id]; the lookup raises KeyError
\* when the record is not there.
WorkerWrites(j, from, f, v, to) ==
  /\ pc[j] = from
  /\ IF j \in DOMAIN JOBS
       THEN /\ SetField(j, f, v)
            /\ pc' = [pc EXCEPT ![j] = to]
       ELSE /\ pc' = [pc EXCEPT ![j] = "keyerror"]
            /\ UNCHANGED JOBS

\* line 55: require_tools(), outside the try
RequireTools(j) ==
  /\ \E found \in BOOLEAN : WorkerSteps(j, "l55", IF found THEN "l57" ELSE "dead")
  /\ UNCHANGED <<JOBS, proc, stdoutPipe, stderrPipe, outdir, waited, startPc, genPc, payload, resp, calls>>

\* lines 57-58: ffprobe_duration and estimate_seg_time_secs; either may raise
ProbeMetadata(j) ==
  /\ \E ok \in BOOLEAN : WorkerSteps(j, "l57", IF ok THEN "l72" ELSE "l61")
  /\ UNCHANGED <<JOBS, proc, stdoutPipe, stderrPipe, outdir, waited, startPc, genPc, payload, resp, calls>>

\* lines 60-64: the metadata error handler
MetaErrStatus(j) ==
  /\ WorkerWrites(j, "l61", "status", "error", "l62")
  /\ UNCHANGED <<proc, stdoutPipe, stderrPipe, outdir, waited, startPc, genPc, payload, resp, calls>>

MetaErrMsg(j) ==
  /\ WorkerWrites(j, "l62", "msg", "Metadata error", "l63")
  /\ UNCHANGED <<proc, stdoutPipe, stderrPipe, outdir, waited, startPc, genPc, payload, resp, calls>>

MetaErrPct(j) ==
  /\ WorkerWrites(j, "l63", "pct", 0, "l64")
  /\ UNCHANGED <<proc, stdoutPipe, stderrPipe, outdir, waited, startPc, genPc, payload, resp, calls>>

MetaErrFinished(j) ==
  /\ WorkerWrites(j, "l64", "finished", "time", "returned")
  /\ UNCHANGED <<proc, stdoutPipe, stderrPipe, outdir, waited, startPc, genPc, payload, resp, calls>>

\* lines 71-74
SetRunning(j) ==
  /\ WorkerWrites(j, "l72", "status", "running", "l73")
  /\ UNCHANGED <<proc, stdoutPipe, stderrPipe, outdir, waited, startPc, genPc, payload, resp, calls>>

SetEstimateMsg(j) ==
  /\ WorkerWrites(j, "l73", "msg", "~N parts", "l74")
  /\ UNCHANGED <<proc, stdoutPipe, stderrPipe, outdir, waited, startPc, genPc, payload, resp, calls>>

\* line 69: out_pattern = pattern or <OUTPUT_DIR>/<base>_part%03d<ext>
OutPatternOf(pat) == IF pat = "" THEN "default" ELSE pat

SetOutPattern(j) ==
  /\ pc[j] = "l74"
  /\ WorkerWrites(j, "l74", "out_pattern",
                  IF j \in DOMAIN JOBS THEN OutPatternOf(JOBS[j].out_pattern) ELSE "", "l88")
  /\ UNCHANGED <<proc, stdoutPipe, stderrPipe, outdir, waited, startPc, genPc, payload, resp, calls>>

\* ------------------------------------------------- the external process
\* What the process does next: write one line to its standard output, write
\* one chunk to its standard error, or exit.  A write blocks while its pipe
\* is full.  The budget `left` bounds the writes.
ProcChoices(left) ==
  IF left = 0
    THEN {[op |-> "exit", line |-> NoEqLine]}
    ELSE {[op |-> "exit", line |-> NoEqLine], [op |-> "err", line |-> NoEqLine]}
           \cup {[op |-> "out", line |-> l] : l \in Lines}

\* line 88: subprocess.Popen(cmd, stdout=PIPE, stderr=PIPE, text=True, bufsize=1),
\* starting a process that attempts at most `writes` writes
PopenWith(j, writes) ==
  /\ pc[j] = "l88"
  /\ \/ \* the launch fails: OSError, caught at line 113
        /\ pc' = [pc EXCEPT ![j] = "l114"]
        /\ UNCHANGED proc
     \/ \E c \in ProcChoices(writes) :
          /\ proc' = [proc EXCEPT ![j] = [state |-> "run", op |-> c.op, line |-> c.line,
                                          left |-> writes, ret |-> 0]]
          /\ pc' = [pc EXCEPT ![j] = "l89"]
  /\ UNCHANGED <<JOBS, stdoutPipe, stderrPipe, outdir, waited, startPc, genPc, payload, resp, calls>>

Popen(j) ==
  /\ pc[j] = "l88"
  /\ PopenWith(j, MaxWrites)

\* The same launch of a process that writes nothing to either pipe.
PopenQuiet(j) ==
  /\ pc[j] = "l88"
  /\ PopenWith(j, 0)

ProcWriteStdout(j) ==
  /\ proc[j].state = "run"
  /\ proc[j].op = "out"
  /\ Len(stdoutPipe[j]) < StdoutCap
  /\ stdoutPipe' = [stdoutPipe EXCEPT ![j] = Append(@, proc[j].line)]
  /\ \E c \in ProcChoices(proc[j].left - 1) :
       proc' = [proc EXCEPT ![j].op = c.op, ![j].line = c.line, ![j].left = @ - 1]
  /\ UNCHANGED <<JOBS, pc, stderrPipe, outdir, waited, startPc, genPc, payload, resp, calls>>

ProcWriteStderr(j) ==
  /\ proc[j].state = "run"
  /\ proc[j].op = "err"
  /\ stderrPipe[j] < StderrCap
  /\ stderrPipe' = [stderrPipe EXCEPT ![j] = @ + 1]
  /\ \E c \in ProcChoices(proc[j].left - 1) :
       proc' = [proc EXCEPT ![j].op = c.op, ![j].line = c.line, ![j].left = @ - 1]
  /\ UNCHANGED <<JOBS, pc, stdoutPipe, outdir, waited, startPc, genPc, payload, resp, calls>>

\* The literal prefix of a job's output pattern: the default pattern starts
\* with the upload's name, which holds a fresh uuid4 (line 139), so it is the
\* job's own; an explicit pattern is the submitter's.
PrefixOf(j) == IF JOBS[j].out_pattern = "explicit" THEN ExplicitPrefix ELSE j

\* The name of segment n written under job j's output pattern.
PartName(j, n) == [pre |-> PrefixOf(j), num |-> n]

\* A file of the output directory: its name and the job whose process wrote it.
FileOf(name, by) == [pre |-> name.pre, num |-> name.num, by |-> by]
NameOf(f) == [pre |-> f.pre, num |-> f.num]

\* The process exits with code ret, having written its segment files; a
\* successful run has written at least one.
ProcExit(j) ==
  /\ proc[j].state = "run"
  /\ proc[j].op = "exit"
  /\ \E ret \in {0, 1} : \E k \in (IF ret = 0 THEN 1 ELSE 0)..MaxFiles :
       /\ proc' = [proc EXCEPT ![j].state = "exited", ![j].op = "none", ![j].ret = ret]
       /\ outdir' = outdir \cup {FileOf(PartName(j, n), j) : n \in 1..k}
  /\ UNCHANGED <<JOBS, pc, stdoutPipe, stderrPipe, waited, startPc, genPc, payload, resp, calls>>

\* ------------------------------------------------ run_job, lines 89 to 116
\* lines 89-98: one iteration of `for line in proc.stdout`, or its end at EOF
ReadLine(j) ==
  /\ pc[j] = "l89"
  /\ IF stdoutPipe[j] # <<>>
       THEN LET line == Head(stdoutPipe[j]) IN
            /\ stdoutPipe' = [stdoutPipe EXCEPT ![j] = Tail(@)]
            /\ IF ~line.hasEq
                 THEN UNCHANGED <<JOBS, pc>>
                 ELSE IF line.k = "out_time_ms"
                   THEN IF IsInt(line)
                          THEN SetField(j, "pct", PctOf(line.n)) /\ UNCHANGED pc
                          ELSE pc' = [pc EXCEPT ![j] = "l114"] /\ UNCHANGED JOBS
                   ELSE IF line.k = "progress" /\ line.v = "end"
                          THEN SetField(j, "pct", One) /\ UNCHANGED pc
                          ELSE UNCHANGED <<JOBS, pc>>
       ELSE /\ proc[j].state = "exited"
            /\ pc' = [pc EXCEPT ![j] = "l99"]
            /\ UNCHANGED <<JOBS, stdoutPipe>>
  /\ UNCHANGED <<proc, stderrPipe, outdir, waited, startPc, genPc, payload, resp, calls>>

\* lines 99-100: ret = proc.wait()
Wait(j) ==
  /\ pc[j] = "l99"
  /\ proc[j].state = "exited"
  /\ waited' = [waited EXCEPT ![j] = TRUE]
  /\ pc' = [pc EXCEPT ![j] = IF proc[j].ret # 0 THEN "l101" ELSE "l104"]
  /\ UNCHANGED <<JOBS, proc, stdoutPipe, stderrPipe, outdir, startPc, genPc, payload, resp, calls>>

\* lines 101-102
ExitErrStatus(j) ==
  /\ WorkerWrites(j, "l101", "status", "error", "l102")
  /\ UNCHANGED <<proc, stdoutPipe, stderrPipe, outdir, waited, startPc, genPc, payload, resp, calls>>

\* proc.stderr.read() or f"ffmpeg exited {ret}"
ExitErrMsg(j) ==
  /\ WorkerWrites(j, "l102", "msg",
                  IF stderrPipe[j] > 0 THEN "stderr text" ELSE "ffmpeg exited", "l112")
  /\ stderrPipe' = [stderrPipe EXCEPT ![j] = 0]
  /\ UNCHANGED <<proc, stdoutPipe, outdir, waited, startPc, genPc, payload, resp, calls>>

\* lines 104-105
DoneStatus(j) ==
  /\ WorkerWrites(j, "l104", "status", "done", "l105")
  /\ UNCHANGED <<proc, stdoutPipe, stderrPipe, outdir, waited, startPc, genPc, payload, resp, calls>>

DoneMsg(j) ==
  /\ WorkerWrites(j, "l105", "msg", "Completed", "l109")
  /\ UNCHANGED <<proc, stdoutPipe, stderrPipe, outdir, waited, startPc, genPc, payload, resp, calls>>

\* sorted(...) of the names of a set of files
RECURSIVE SortedNames(_)
SortedNames(S) ==
  IF S = {} THEN <<>>
  ELSE LET least == CHOOSE f \in S : \A g \in S : f.num <= g.num
       IN <<least>> \o SortedNames(S \ {least})

\* f.startswith(prefix) and f.endswith(ext), over os.listdir(dirpath)
Listing(j) == SortedNames({NameOf(f) : f \in {g \in outdir : g.pre = PrefixOf(j)}})

\* lines 107-111: os.listdir may raise OSError, caught at line 113
ListParts(j) ==
  /\ pc[j] = "l109"
  /\ \/ /\ SetField(j, "parts", Listing(j))
        /\ pc' = [pc EXCEPT ![j] = "l112"]
     \/ /\ pc' = [pc EXCEPT ![j] = "l114"]
        /\ UNCHANGED JOBS
  /\ UNCHANGED <<proc, stdoutPipe, stderrPipe, outdir, waited, startPc, genPc, payload, resp, calls>>

\* line 112
SetFinished(j) ==
  /\ WorkerWrites(j, "l112", "finished", "time", "returned")
  /\ UNCHANGED <<proc, stdoutPipe, stderrPipe, outdir, waited, startPc, genPc, payload, resp, calls>>

\* lines 113-116: except Exception as e
ExcStatus(j) ==
  /\ WorkerWrites(j, "l114", "status", "error", "l115")
  /\ UNCHANGED <<proc, stdoutPipe, stderrPipe, outdir, waited, startPc, genPc, payload, resp, calls>>

ExcMsg(j) ==
  /\ WorkerWrites(j, "l115", "msg", "str(e)", "l116")
  /\ UNCHANGED <<proc, stdoutPipe, stderrPipe, outdir, waited, startPc, genPc, payload, resp, calls>>

ExcFinished(j) ==
  /\ WorkerWrites(j, "l116", "finished", "time", "returned")
  /\ UNCHANGED <<proc, stdoutPipe, stderrPipe, outdir, waited, startPc, genPc, payload, resp, calls>>

\* Every step of run_job but the launch.
WorkerButPopen(j) ==
  \/ RequireTools(j) \/ ProbeMetadata(j)
  \/ MetaErrStatus(j) \/ MetaErrMsg(j) \/ MetaErrPct(j) \/ MetaErrFinished(j)
  \/ SetRunning(j) \/ SetEstimateMsg(j) \/ SetOutPattern(j)
  \/ ReadLine(j) \/ Wait(j)
  \/ ExitErrStatus(j) \/ ExitErrMsg(j)
  \/ DoneStatus(j) \/ DoneMsg(j) \/ ListParts(j) \/ SetFinished(j)
  \/ ExcStatus(j) \/ ExcMsg(j) \/ ExcFinished(j)

Worker(j) == WorkerButPopen(j) \/ Popen(j)

Process(j) == ProcWriteStdout(j) \/ ProcWriteStderr(j) \/ ProcExit(j)

\* ------------------------------------------------------ progress_stream
\* The lookup every query handler starts with (lines 163-165, 170-171,
\* 191-193, 203-205): 404 for an id that is no key of JOBS, else 0, go on.
LookupCodeUnchecked(id) == IF id \notin DOMAIN JOBS THEN 500 ELSE 0
LookupCode(id) == IF id \notin DOMAIN JOBS THEN 404 ELSE 0

\* lines 170-171 and 187: 404 for an unknown id, else the response starts gen()
ProgressStream(id) ==
  /\ id \in JobIds => genPc[id] = "none"
  /\ IF LookupCode(id) # 0
       THEN /\ resp' = Response("progress_stream", id, LookupCode(id), "", "")
            /\ UNCHANGED genPc
       ELSE /\ resp' = Response("progress_stream", id, 200, "", "")
            /\ genPc' = [genPc EXCEPT ![id] = "l178"]
  /\ UNCHANGED <<JOBS, pc, proc, stdoutPipe, stderrPipe, outdir, waited, startPc, payload, calls>>

\* One read of the shared record by gen(), kept in the payload under construction.
GenReads(j, f, v, to) ==
  /\ payload' = [payload EXCEPT ![j][f] = v]
  /\ genPc' = [genPc EXCEPT ![j] = to]
  /\ UNCHANGED <<JOBS, pc, proc, stdoutPipe, stderrPipe, outdir, waited, startPc, resp, calls>>

\* lines 174-178: j = JOBS.get(job_id); "status": j["status"]
GenStatus(j) ==
  /\ genPc[j] = "l178"
  /\ GenReads(j, "status", JOBS[j].status, "l179")

\* line 179: "pct": float(j["pct"])
GenPct(j) ==
  /\ genPc[j] = "l179"
  /\ GenReads(j, "pct", JOBS[j].pct, "l180")

\* line 180: "msg": j.get("msg", "")
GenMsg(j) ==
  /\ genPc[j] = "l180"
  /\ GenReads(j, "msg", JOBS[j].msg, "l181")

\* line 181, the condition: j["status"] in ("done", "error"); when it is false
\* the files are [] and line 183 yields the payload
GenFilesCond(j) ==
  /\ genPc[j] = "l181"
  /\ GenReads(j, "files", <<>>,
              IF JOBS[j].status \in Terminal THEN "l181parts" ELSE "l184")

\* line 181, j.get("parts", []), and line 183, the yield
GenFilesParts(j) ==
  /\ genPc[j] = "l181parts"
  /\ GenReads(j, "files", JOBS[j].parts, "l184")

\* lines 184-186: break on a terminal status, else sleep and loop
GenCheck(j) ==
  /\ genPc[j] = "l184"
  /\ IF JOBS[j].status \in Terminal
       THEN genPc' = [genPc EXCEPT ![j] = "closed"] /\ UNCHANGED payload
       ELSE /\ genPc' = [genPc EXCEPT ![j] = "l178"]
            /\ payload' = [payload EXCEPT ![j] = NoPayload]
  /\ UNCHANGED <<JOBS, pc, proc, stdoutPipe, stderrPipe, outdir, waited, startPc, resp, calls>>

Gen(j) ==
  \/ ProgressStream(j)
  \/ GenStatus(j) \/ GenPct(j) \/ GenMsg(j) \/ GenFilesCond(j) \/ GenFilesParts(j)
  \/ GenCheck(j)

Next ==
  \E j \in SoloIds :
    StartInsert(j) \/ StartThread(j) \/ Worker(j) \/ Process(j) \/ Gen(j)

Spec == Init /\ [][Next]_vars


\* --------------------------------------------- job, download, download_all
\* lines 161-166: the job page
Job(id) ==
  /\ resp' = Response("job", id, IF LookupCode(id) # 0 THEN LookupCode(id) ELSE 200, "", "")
  /\ UNCHANGED <<JOBS, pc, proc, stdoutPipe, stderrPipe, outdir, waited, startPc,
                 genPc, payload, calls>>

\* The names a download request may ask for: a segment of some pattern, or a
\* job's archive.
\* f"{job_id}_parts.zip"
ZipPrefix(id) == IF id = "j1" THEN "j1_parts.zip" ELSE "j2_parts.zip"
ZipName(id) == [pre |-> ZipPrefix(id), num |-> 0]
FileArgs == {[pre |-> p, num |-> n] : p \in JobIds \cup {ExplicitPrefix}, n \in 1..MaxFiles}
              \cup {ZipName(id) : id \in JobIds}

\* os.path.isfile(os.path.join(dirpath, f))
IsFile(name) == \E g \in outdir : NameOf(g) = name

\* lines 189-199: one part; f is the request's argument
DownloadCode(id, f) ==
  IF LookupCode(id) # 0 THEN LookupCode(id)
  ELSE IF JOBS[id].status # "done" THEN 404
  ELSE IF ~IsFile(f) THEN 404
  ELSE 200

Download(id) ==
  /\ \E f \in FileArgs : resp' = Response("download", id, DownloadCode(id, f), "", "")
  /\ UNCHANGED <<JOBS, pc, proc, stdoutPipe, stderrPipe, outdir, waited, startPc,
                 genPc, payload, calls>>

\* lines 201-209: what download_all answers before it builds the archive;
\* 0 when it goes on to build it
DownloadAllCode(id) ==
  IF LookupCode(id) # 0 THEN LookupCode(id)
  ELSE IF JOBS[id].status # "done" THEN 404
  ELSE IF JOBS[id].parts = <<>> THEN 404
  ELSE 0

\* lines 201-227: the archive of all parts, rebuilt in the output directory on
\* every request; building it may raise, which is answered 500
DownloadAll(id) ==
  /\ IF DownloadAllCode(id) # 0
       THEN /\ resp' = Response("download_all", id, DownloadAllCode(id), "", "")
            /\ UNCHANGED outdir
       ELSE \E built \in BOOLEAN :
              /\ resp' = Response("download_all", id, IF built THEN 200 ELSE 500, "", "")
              /\ outdir' = IF built THEN outdir \cup {FileOf(ZipName(id), "server")}
                                    ELSE outdir
  /\ UNCHANGED <<JOBS, pc, proc, stdoutPipe, stderrPipe, waited, startPc,
                 genPc, payload, calls>>

\* The request handlers, over every id a request may name.
Handlers(id) == Job(id) \/ ProgressStream(id) \/ Download(id) \/ DownloadAll(id)

\* One job whose process is quiet, and every request handler beside it.
HttpNext ==
  \/ StartReject
  \/ \E j \in SoloIds :
       StartInsert(j) \/ StartThread(j) \/ WorkerButPopen(j) \/ PopenQuiet(j) \/ ProcExit(j)
  \/ \E id \in RequestIds : Handlers(id)

SpecHttp == Init /\ [][HttpNext]_vars


\* Two jobs side by side, each with a quiet process, writing into the one
\* output directory.
SharedNext ==
  \E j \in JobIds :
    StartInsert(j) \/ StartThread(j) \/ WorkerButPopen(j) \/ PopenQuiet(j) \/ ProcExit(j)

SpecShared == Init /\ [][SharedNext]_vars


\* ------------------------------------------- the segment-time estimators
\* Numbers that are floats in the code are kept as exact fractions n/d; a
\* call that raises gives Raised.
Frac(n, d) == [ok |-> TRUE, n |-> n, d |-> d]
Raised == [ok |-> FALSE, n |-> 0, d |-> 1]

\* What `ffprobe -show_entries format=bit_rate` gives: a non-zero exit
\* (CalledProcessError), or its stripped output: empty, N/A, or an integer.
BitrateOutputs ==
  {[kind |-> "fail", n |-> 0], [kind |-> "empty", n |-> 0], [kind |-> "N/A", n |-> 0]}
    \cup {[kind |-> "int", n |-> n] :
            n \in {0, 1, 4000000, 8000000, 8388608, 100000000}}

\* What ffprobe_duration gives: whole seconds, or -1 where it raises.
DurationOutputs == {0 - 1, 0, 1, 2}

\* File sizes in bytes, and chunk sizes in MB.
FileSizes == {0, 1, 250}
ChunkMbs == {1, 5, 10}

ProbeInputs ==
  [br : BitrateOutputs, dur : DurationOutputs, size : FileSizes, chunk_mb : ChunkMbs]

\* chunk_mb * 1024 * 1024 * 8
TargetBits(chunk_mb) == chunk_mb * 1024 * 1024 * 8

\* src/app.py lines 33-47, ffprobe_bitrate_or_calc: int(br) is inside the try,
\* which catches CalledProcessError alone
FfprobeBitrateOrCalc(in) ==
  IF in.br.kind \in {"empty", "N/A"} THEN Raised
  ELSE IF in.br.kind = "int" /\ in.br.n > 0 THEN Frac(in.br.n, 1)
  ELSE IF in.dur < 0 THEN Raised
  ELSE IF in.dur = 0 THEN Frac(in.size * 8 * 1000000, 1)   \* max(dur, 1e-6)
  ELSE Frac(in.size * 8, in.dur)

\* src/app.py lines 49-52, estimate_seg_time_secs
EstimateSegTimeSecsUnfloored(in) ==
  LET bitrate == FfprobeBitrateOrCalc(in)
      target_bits == TargetBits(in.chunk_mb) IN
  IF ~bitrate.ok \/ bitrate.n = 0 THEN Raised
  ELSE Frac(target_bits * bitrate.d, bitrate.n)
EstimateSegTimeSecs(in) ==
  LET bitrate == FfprobeBitrateOrCalc(in)
      target_bits == TargetBits(in.chunk_mb) IN
  IF ~bitrate.ok THEN Raised
  ELSE IF bitrate.n = 0 THEN Raised                         \* ZeroDivisionError
  ELSE IF target_bits * bitrate.d >= bitrate.n
         THEN Frac(target_bits * bitrate.d, bitrate.n)
         ELSE Frac(1, 1)

\* src/slice.py lines 22-34, the bit rate compute_segment_time_secs settles on
SliceBitRate(in) ==
  LET bit_rate == IF in.br.kind = "int" THEN in.br.n ELSE 0 IN
  IF in.br.kind = "N/A" THEN Raised                         \* int("N/A")
  ELSE IF bit_rate > 0 THEN Frac(bit_rate, 1)
  ELSE IF in.dur <= 0 THEN Raised
  ELSE Frac(in.size * 8, in.dur)

\* src/slice.py lines 20-40, compute_segment_time_secs
ComputeSegmentTimeSecs(in) ==
  LET bit_rate == SliceBitRate(in)
      target_bits == TargetBits(in.chunk_mb) IN
  IF ~bit_rate.ok THEN Raised
  ELSE IF bit_rate.n = 0 THEN Raised                        \* ZeroDivisionError
  ELSE IF target_bits * bit_rate.d >= bit_rate.n
         THEN Frac(target_bits * bit_rate.d, bit_rate.n)
         ELSE Frac(1, 1)

NotProbed == [done |-> FALSE, appBitrate |-> Raised, appSeg |-> Raised,
              sliceBitrate |-> Raised, sliceSeg |-> Raised]

\* Both programs are run on the same file with the same chunk size.
RunProbe ==
  /\ ~probe.out.done
  /\ probe' = [probe EXCEPT !.out =
                 [done |-> TRUE,
                  appBitrate |-> FfprobeBitrateOrCalc(probe.in),
                  appSeg |-> EstimateSegTimeSecs(probe.in),
                  sliceBitrate |-> SliceBitRate(probe.in),
                  sliceSeg |-> ComputeSegmentTimeSecs(probe.in)]]
  /\ UNCHANGED <<JOBS, pc, proc, stdoutPipe, stderrPipe, outdir, waited, startPc,
                 genPc, payload, resp, listed>>

ProbeInit ==
  /\ JOBS = [j \in {} |-> NewJob]
  /\ pc = [j \in JobIds |-> "unborn"]
  /\ proc = [j \in JobIds |-> NoProc]
  /\ stdoutPipe = [j \in JobIds |-> <<>>]
  /\ stderrPipe = [j \in JobIds |-> 0]
  /\ outdir = {}
  /\ waited = [j \in JobIds |-> FALSE]
  /\ startPc = [j \in JobIds |-> 0]
  /\ genPc = [j \in JobIds |-> "none"]
  /\ payload = [j \in JobIds |-> NoPayload]
  /\ resp = NoResponse
  /\ listed = NoCall
  /\ probe \in {[in |-> i, out |-> NotProbed] : i \in ProbeInputs}

SpecProbe == ProbeInit /\ [][RunProbe]_vars


\* ---------------------------------------------- the listing of the parts
\* File names as Python compares them: sequences of character codes.
MaxSegments == 11         \* segment files one run produces
Widths == {1, 2, 3}       \* %d, %02d, %03d
PrefixChars == <<112>>                         \* "p"
Exts == {<<46, 109, 112, 52>>, <<46, 109, 107, 118>>}   \* ".mp4", ".mkv"

RECURSIVE Digits(_)
Digits(n) == IF n < 10 THEN <<48 + n>> ELSE Digits(n \div 10) \o <<48 + (n % 10)>>

RECURSIVE ZeroPad(_, _)
ZeroPad(ds, width) == IF Len(ds) >= width THEN ds ELSE ZeroPad(<<48>> \o ds, width)

\* The name the segment muxer gives segment n under prefix%0<width>d<suffix>.
SegmentName(in, n) == PrefixChars \o ZeroPad(Digits(n), in.width) \o in.suffix

StartsWith(f, prefix) ==
  Len(f) >= Len(prefix) /\ SubSeq(f, 1, Len(prefix)) = prefix
EndsWith(f, ext) ==
  Len(f) >= Len(ext) /\ SubSeq(f, Len(f) - Len(ext) + 1, Len(f)) = ext

\* str.__lt__
RECURSIVE LexLess(_, _)
LexLess(a, b) ==
  IF a = <<>> THEN b # <<>>
  ELSE IF b = <<>> THEN FALSE
  ELSE IF Head(a) # Head(b) THEN Head(a) < Head(b)
  ELSE LexLess(Tail(a), Tail(b))

\* sorted(...) of a set of names
RECURSIVE SortedStrings(_)
SortedStrings(S) ==
  IF S = {} THEN <<>>
  ELSE LET least == CHOOSE f \in S : \A g \in S \ {f} : LexLess(f, g)
       IN <<least>> \o SortedStrings(S \ {least})

\* src/app.py lines 68 and 107-111: the prefix is the pattern's text before
\* its first %, the extension is the uploaded file's
ListedParts(in) ==
  SortedStrings({f \in {SegmentName(in, n) : n \in 0..(in.segments - 1)} :
                   StartsWith(f, PrefixChars) /\ EndsWith(f, in.ext)})

\* A submission's pattern and input extension, and the number of segments the
\* run produced.  The default pattern (line 69) is %03d with the input's
\* extension; an explicit one has any width and suffix.
ListInputs == [width : Widths, suffix : Exts, ext : Exts, segments : 1..MaxSegments]

NotListed == [done |-> FALSE, written |-> <<>>, parts |-> <<>>]

RunListing ==
  /\ ~listed.out.done
  /\ listed' = [listed EXCEPT !.out =
                  [done |-> TRUE,
                   written |-> [i \in 1..listed.in.segments |->
                                  SegmentName(listed.in, i - 1)],
                   parts |-> ListedParts(listed.in)]]
  /\ UNCHANGED <<JOBS, pc, proc, stdoutPipe, stderrPipe, outdir, waited, startPc,
                 genPc, payload, resp, probe>>

ListInit ==
  /\ JOBS = [j \in {} |-> NewJob]
  /\ pc = [j \in JobIds |-> "unborn"]
  /\ proc = [j \in JobIds |-> NoProc]
  /\ stdoutPipe = [j \in JobIds |-> <<>>]
  /\ stderrPipe = [j \in JobIds |-> 0]
  /\ outdir = {}
  /\ waited = [j \in JobIds |-> FALSE]
  /\ startPc = [j \in JobIds |-> 0]
  /\ genPc = [j \in JobIds |-> "none"]
  /\ payload = [j \in JobIds |-> NoPayload]
  /\ resp = NoResponse
  /\ probe = NoCall
  /\ listed \in {[in |-> i, out |-> NotListed] : i \in ListInputs}

SpecList == ListInit /\ [][RunListing]_vars

\* ================================================================ claims
Known == DOMAIN JOBS

StatusOf(j) == JOBS[j].status

\* The fields of a job record a reader is shown.
Shown(rec) == <<rec.status, rec.pct, rec.msg, rec.parts, rec.finished>>

\* C1: once status is 'done' or 'error', no later step of any execution
\* writes a different status (also when listing the output directory fails).
C1_TerminalStatusKept ==
  [][\A j \in Known : StatusOf(j) \in Terminal => JOBS'[j].status = StatusOf(j)]_vars

\* C2: during a successful run (the process exited 0 and matching files are
\* in the output directory) no reader can see status 'done' together with an
\* empty parts list.
C2_DoneNeverWithoutParts ==
  \A j \in Known :
    (StatusOf(j) = "done" /\ proc[j].state = "exited" /\ proc[j].ret = 0
       /\ Listing(j) # <<>>)
      => JOBS[j].parts # <<>>

\* C3: every failure inside the worker is captured as status 'error': a
\* worker thread that has ended, however it ended, has left its job 'done'
\* or 'error', never 'queued' or 'running'.
C3_EndedWorkerLeftTerminal ==
  \A j \in JobIds :
    pc[j] \in {"returned", "dead", "keyerror"} => (j \in Known /\ StatusOf(j) \in Terminal)

\* C4: while a job's status is 'running', a later read of its pct is never
\* below an earlier one, whatever progress lines the process emits.
C4_PctNeverDecreasesWhileRunning ==
  [][\A j \in Known :
       (StatusOf(j) = "running" /\ JOBS'[j].status = "running")
         => JOBS'[j].pct >= JOBS[j].pct]_vars

\* C5: in every state where a job's status is 'done', its pct is exactly 1.0.
C5_DonePctIsOne ==
  \A j \in Known : StatusOf(j) = "done" => JOBS[j].pct = One

\* C6: the last payload gen() yields carries status 'done' or 'error', and
\* when the job succeeded its files are the job's complete parts list.
C6_LastPayloadIsFinalSnapshot ==
  \A j \in JobIds :
    genPc[j] = "closed" =>
      /\ payload[j].status \in Terminal
      /\ (pc[j] = "returned" /\ StatusOf(j) = "done") => payload[j].files = JOBS[j].parts

\* C7: once a job's status is 'done' or 'error', status, pct, msg, parts and
\* finished never change again, so two reads after that agree on all of them.
C7_TerminalFieldsStable ==
  [][\A j \in Known : StatusOf(j) \in Terminal => Shown(JOBS'[j]) = Shown(JOBS[j])]_vars

\* C8: status becomes 'done' or 'error' only from 'running', and 'running'
\* only from 'queued'.
C8_QueuedRunningTerminal ==
  [][\A j \in Known :
       JOBS'[j].status # StatusOf(j) =>
         /\ JOBS'[j].status \in Terminal => StatusOf(j) = "running"
         /\ JOBS'[j].status = "running" => StatusOf(j) = "queued"]_vars

\* C9: no reachable state has the worker waiting for a line on the standard
\* output pipe while the process is blocked writing to a full standard error
\* pipe.
C9_NeverBlockedOnBothPipes ==
  \A j \in JobIds :
    ~ /\ pc[j] = "l89"
      /\ stdoutPipe[j] = <<>>
      /\ proc[j].state = "run"
      /\ proc[j].op = "err"
      /\ stderrPipe[j] = StderrCap

\* C10: the record is in JOBS before the worker thread runs and before
\* start() returns the job_id, so no JOBS[job_id] lookup of run_job misses
\* and every holder of the id finds the record.
C10_RecordVisibleBeforeWorker ==
  \A j \in JobIds :
    /\ pc[j] # "keyerror"
    /\ (pc[j] # "unborn" \/ startPc[j] = Len(StartSteps)) => j \in Known

\* C10 witness: the worker has looked its record up and written to it.
C10_Witness ==
  \E j \in JobIds : pc[j] = "l73" /\ j \in Known /\ StatusOf(j) = "running"

\* C17: on every path of run_job after Popen succeeded, proc.wait() has
\* returned before status is set to 'done' or 'error'.
C17_WaitedBeforeTerminal ==
  \A j \in Known :
    (StatusOf(j) \in Terminal /\ proc[j].state # "none") => waited[j]

\* C18: a worker that ran to its end after the process exited with code 0
\* has left status 'done' and msg 'Completed'; after a non-zero exit it has
\* left status 'error', the standard-error text or the generic exit-code
\* message, and no parts; after a failed launch it has left status 'error',
\* the exception's message, and no parts.
C18_ExitCodeDecidesOutcome ==
  \A j \in Known :
    pc[j] = "returned" =>
      /\ (waited[j] /\ proc[j].ret = 0)
           => (StatusOf(j) = "done" /\ JOBS[j].msg = "Completed")
      /\ (waited[j] /\ proc[j].ret # 0)
           => /\ StatusOf(j) = "error"
              /\ JOBS[j].msg \in {"stderr text", "ffmpeg exited"}
              /\ JOBS[j].parts = <<>>
      /\ (proc[j].state = "none" /\ JOBS[j].msg # "Metadata error")
           => /\ StatusOf(j) = "error"
              /\ JOBS[j].msg = "str(e)"
              /\ JOBS[j].parts = <<>>

\* C19: in every reachable state of every job, 0.0 <= pct <= 1.0.
C19_PctWithinUnitInterval ==
  \A j \in Known : 0 <= JOBS[j].pct /\ JOBS[j].pct <= One

\* C11: a start() call whose chunk_mb is 0, negative, non-integer or missing,
\* or that uploads no file, is answered with an error, and the step that
\* answers it leaves JOBS unchanged and starts no worker thread.
C11_InvalidSubmissionCreatesNoJob ==
  [][(resp' # resp /\ resp'.op = "start"
        /\ (resp'.chunk \in {"0", "-1", "1.5", "missing"} \/ resp'.file = "none"))
       => (resp'.code = 400 /\ JOBS' = JOBS /\ pc' = pc)]_vars

\* C11 witness: chunk_mb = 0 with a file was rejected while a job is known.
C11_Witness ==
  /\ resp = Response("start", "", 400, "0", "video.mp4")
  /\ Known # {}

\* C12: download and download_all answer 200 only for a job whose status is
\* 'done' and whose parts list is non-empty.
C12_ServesOnlyDoneWithParts ==
  [][(resp' # resp /\ resp'.op \in {"download", "download_all"} /\ resp'.code = 200)
       => /\ resp'.id \in Known
          /\ JOBS[resp'.id].status = "done"
          /\ JOBS[resp'.id].parts # <<>>]_vars

\* C16: job, progress_stream, download and download_all, called with an id
\* that is no key of JOBS, answer 404 and leave JOBS unchanged.
C16_UnknownIdIsNotFound ==
  [][(resp' # resp
        /\ resp'.op \in {"job", "progress_stream", "download", "download_all"}
        /\ resp'.id \notin Known)
       => (resp'.code = 404 /\ JOBS' = JOBS)]_vars

\* C16 witness: an unknown id was asked for while another job is known.
C16_Witness ==
  /\ resp = Response("download_all", "unknown", 404, "", "")
  /\ Known # {}

\* C20: the parts recorded for a job that reached 'done' are names of files
\* its own process wrote, never only another job's.
C20_PartsAreOwnFiles ==
  \A j \in Known :
    StatusOf(j) = "done" =>
      \A i \in 1..Len(JOBS[j].parts) :
        \E f \in outdir : NameOf(f) = JOBS[j].parts[i] /\ f.by = j

\* C13: whenever the container bit rate is absent (empty or non-numeric
\* output), zero, or its query fails, and the duration is known, both probers
\* give file_size_bytes * 8 / duration_seconds instead of raising.
C13_BitrateFallsBack ==
  (probe.out.done
     /\ (probe.in.br.kind \in {"empty", "N/A", "fail"}
           \/ (probe.in.br.kind = "int" /\ probe.in.br.n = 0))
     /\ probe.in.dur >= 1)
    => /\ probe.out.appBitrate = Frac(probe.in.size * 8, probe.in.dur)
       /\ probe.out.sliceBitrate = Frac(probe.in.size * 8, probe.in.dur)

\* C14: for chunk_mb > 0 and a bit rate b > 0, each estimator returns
\* max(1.0, chunk_mb*1024*1024*8 / b), never less than one second, and the
\* two estimators return the same value for the same bit rate.
C14_SegmentTimeIsFlooredQuotient ==
  probe.out.done =>
    LET t == probe.in.chunk_mb * 8388608
        a == probe.out.appBitrate
        b == probe.out.sliceBitrate IN
    /\ (a.ok /\ a.n > 0) =>
         /\ probe.out.appSeg.ok
         /\ probe.out.appSeg.n >= probe.out.appSeg.d
         /\ (t * a.d >= a.n) => probe.out.appSeg = Frac(t * a.d, a.n)
         /\ (t * a.d < a.n) => probe.out.appSeg = Frac(1, 1)
    /\ (b.ok /\ b.n > 0) =>
         /\ probe.out.sliceSeg.ok
         /\ probe.out.sliceSeg.n >= probe.out.sliceSeg.d
         /\ (t * b.d >= b.n) => probe.out.sliceSeg = Frac(t * b.d, b.n)
         /\ (t * b.d < b.n) => probe.out.sliceSeg = Frac(1, 1)
    /\ (a.ok /\ a.n > 0 /\ a = b) => probe.out.appSeg = probe.out.sliceSeg

\* C14 witness: chunk_mb = 1 against 100,000,000 bit/s gave 1.0 in both.
C14_Witness ==
  /\ probe.out.done
  /\ probe.in.chunk_mb = 1
  /\ probe.in.br = [kind |-> "int", n |-> 100000000]
  /\ probe.out.appSeg = Frac(1, 1)
  /\ probe.out.sliceSeg = Frac(1, 1)

\* C15: the parts listed for a successful run are non-empty and are the
\* produced segments in ascending numeric order, for every pattern width and
\* suffix and every number of segments.
C15_PartsInNumericOrder ==
  listed.out.done =>
    /\ listed.out.parts # <<>>
    /\ listed.out.parts = listed.out.written

====
